---------------------------- MODULE Spec2Model ----------------------------
(***************************************************************************)
(* SheSecure backend (src/main.py, src/schemas.py): the report store, the  *)
(* route-safety scorer and the signup handler.                             *)
(*                                                                         *)
(* Numbers.  Every float of the program is held in fixed point, as the     *)
(* integer number of 1/Scale units (0.6 is 6000, 0.05 is 500, 1.0 is       *)
(* 10000).  On the inputs of this model every product and quotient of      *)
(* route_safety is a whole number of units, so the arithmetic below is the *)
(* exact real arithmetic of the expressions in the source.  IEEE-754       *)
(* rounding of the doubles is not modelled: the program's score differs    *)
(* from the exact one by at most a few ulps, which changes a label only    *)
(* where the exact score is 0.25 or 0.5 and the double falls just below it *)
(* (15 far reports and 4 unsafe at a daytime hour: exactly 0.5 here,       *)
(* 0.49999999999999994 in the program).                                    *)
(* Coordinates are degrees in the same units (300 is 0.03 degrees).        *)
(*                                                                         *)
(* A Mongo document is a function from its keys to values; a missing key   *)
(* is a key outside its DOMAIN.  An Optional field that is None is a key   *)
(* left out of the record.                                                 *)
(***************************************************************************)
EXTENDS Integers, Sequences, FiniteSets, TLC

VARIABLES
    report,     \* the "report" collection, in insertion order
    clock,      \* the wall clock, int(time.time())
    call,       \* the locals and the response of the latest route_safety call
    user,       \* the "user" collection
    session,    \* the "session" collection
    thread      \* the signup request each worker thread is handling

vars == <<report, clock, call, user, session, thread>>

---------------------------------------------------------------------------
(* Bounds of the model *)

\* Stored reports in Spec
MaxReports == 3

\* Worker threads serving signup requests in SignupSpec
NumThreads == 2

\* Reports of each kind in the stores of ScoreSpec
MaxNear == 30

MaxMid == 2

MaxFar == 60

Threads == 1..NumThreads

Scale == 10000

\* Fixed point: the float n/d
Real(n, d) == (n * Scale) \div d

\* Fixed point: the product of two floats
Mul(a, b) == (a * b) \div Scale

Min(a, b) == IF a < b THEN a ELSE b

Max(a, b) == IF a > b THEN a ELSE b

\* dict.get(key, default)
Get(d, key, default) == IF key \in DOMAIN d THEN d[key] ELSE default

\* math.hypot(x, y) < t, for t >= 0, decided on the squares
HypotLt(x, y, t) == x * x + y * y < t * t

---------------------------------------------------------------------------
(* Inputs *)

\* Coordinates [lat, lng] of route requests
Origins == { <<0, 0>> }

Destinations == { <<0, 0>>, <<600, 800>>, <<100, 0>> }

\* Unix seconds: 0, a negative value, and both edges of each late/day boundary
Timestamps == { 0, -1, 21599, 21600, 71999, 72000 }

\* Wall-clock readings: 22:13 UTC and, later, 09:20 UTC
ClockValues == { 1700000000, 1700040000 }

\* RouteQuery payloads; timestamp: Optional[int] = None is the key left out
RouteQueries ==
    { [origin |-> o, destination |-> d] : o \in Origins, d \in Destinations }
    \cup
    { [origin |-> o, destination |-> d, timestamp |-> t] :
        o \in Origins, d \in Destinations, t \in Timestamps }

\* ReportRequest payloads: a report at the origin, one 0.05 degrees from it and
\* one 0.1 degrees from it, and two whose severity (0, 6) fails Report's
\* Field(ge=1, le=5)
ReportRequests ==
    { [lat |-> 0, lng |-> 0, severity |-> 5],
      [lat |-> 300, lng |-> 400, severity |-> 2],
      [lat |-> 600, lng |-> 800, severity |-> 1],
      [lat |-> 300, lng |-> 400, severity |-> 0],
      [lat |-> 0, lng |-> 0, severity |-> 6] }

\* Documents of the collection that were not written through create_report:
\* route_safety reads them with r.get("lat", 0), r.get("lng", 0),
\* r.get("severity", 1)
LegacyDocs ==
    { [_id |-> 1, lng |-> 400], [_id |-> 1, lat |-> 300, severity |-> 5] }

\* SignupRequest payloads (the fields the duplicate check reads)
SignupRequests ==
    { [email |-> e, phone |-> p] :
        e \in {"a@example.org", "b@example.org"}, p \in {"111", "222"} }

NoCall == [op |-> "none"]

---------------------------------------------------------------------------
(* route_safety *)

\* now = payload.timestamp or int(time.time())
Now(payload, clk) ==
    IF "timestamp" \in DOMAIN payload /\ payload.timestamp # 0
    THEN payload.timestamp
    ELSE clk

\* hour = (now // 3600) % 24
Hour(now) == (now \div 3600) % 24

\* time_factor = 0.7 if hour >= 20 or hour <= 5 else 1.0
TimeFactor(hour) == IF hour >= 20 \/ hour <= 5 THEN 7000 ELSE 10000

\* (a + b) / 2
Mid(a, b) == (a + b) \div 2

\* LoopBody with "d <= 0.05" for the near test
LoopBodyInclusive(acc, r, mid_lat, mid_lng) ==
    LET dx == Get(r, "lat", 0) - mid_lat
        dy == Get(r, "lng", 0) - mid_lng
    IN  IF ~HypotLt(dx, dy, 500) /\ dx * dx + dy * dy # 500 * 500
        THEN IF HypotLt(dx, dy, 1000)
             THEN [acc EXCEPT !.unsafe_reports = @ + 1]
             ELSE [acc EXCEPT !.safe_reports = @ + 1]
        ELSE [acc EXCEPT !.unsafe_reports = @ + Get(r, "severity", 1)]

\* LoopBody with "unsafe_reports = s" for "unsafe_reports += s"
LoopBodyAssign(acc, r, mid_lat, mid_lng) ==
    LET dx == Get(r, "lat", 0) - mid_lat
        dy == Get(r, "lng", 0) - mid_lng
    IN  IF HypotLt(dx, dy, 500)
        THEN [acc EXCEPT !.unsafe_reports = Get(r, "severity", 1)]
        ELSE IF HypotLt(dx, dy, 1000)
             THEN [acc EXCEPT !.unsafe_reports = @ + 1]
             ELSE [acc EXCEPT !.safe_reports = @ + 1]

\* One pass of the loop body: the accumulators after report r.  The severity
\* of a stored report is an integer, which int(...) leaves as it is.
LoopBody(acc, r, mid_lat, mid_lng) ==
    LET dx == Get(r, "lat", 0) - mid_lat
        dy == Get(r, "lng", 0) - mid_lng
    IN  IF HypotLt(dx, dy, 500)
        THEN [acc EXCEPT !.unsafe_reports = @ + Get(r, "severity", 1)]
        ELSE IF HypotLt(dx, dy, 1000)
             THEN [acc EXCEPT !.unsafe_reports = @ + 1]
             ELSE [acc EXCEPT !.safe_reports = @ + 1]

\* for r in reports: ...   starting from unsafe_reports = 0, safe_reports = 0
RECURSIVE Loop(_, _, _, _)
Loop(acc, reports, mid_lat, mid_lng) ==
    IF reports = <<>>
    THEN acc
    ELSE Loop(LoopBody(acc, Head(reports), mid_lat, mid_lng),
              Tail(reports), mid_lat, mid_lng)

\* poi_density = max(0.0, min(1.0, (safe_reports % 20) / 20))
PoiDensity(safe_reports) == Max(0, Min(Scale, Real(safe_reports % 20, 20)))

\* sr_norm = max(0.0, min(1.0, safe_reports / 50))
SrNorm(safe_reports) == Max(0, Min(Scale, Real(safe_reports, 50)))

\* ur_norm = max(0.0, min(1.0, unsafe_reports / 50))
UrNorm(unsafe_reports) == Max(0, Min(Scale, Real(unsafe_reports, 50)))

\* Score clamped to [0, 1]
ScoreClamped(poi_density, sr_norm, ur_norm, time_factor) ==
    Max(0, Min(Scale,
        Mul(Mul(6000, poi_density) + Mul(3000, sr_norm) - Mul(5000, ur_norm),
            time_factor)))

\* Score with the sum divided by time_factor
ScoreDivided(poi_density, sr_norm, ur_norm, time_factor) ==
    ((Mul(6000, poi_density) + Mul(3000, sr_norm) - Mul(5000, ur_norm)) * Scale)
        \div time_factor

\* score = (0.6 * poi_density + 0.3 * sr_norm - 0.5 * ur_norm) * time_factor
Score(poi_density, sr_norm, ur_norm, time_factor) ==
    Mul(Mul(6000, poi_density) + Mul(3000, sr_norm) - Mul(5000, ur_norm),
        time_factor)

\* Safety with "score > 0.5"
SafetyStrict(score) ==
    IF score > 5000 THEN "safe"
    ELSE IF score >= 2500 THEN "moderate" ELSE "dangerous"

\* safety = "safe" if score >= 0.5 else ("moderate" if score >= 0.25 else "dangerous")
Safety(score) ==
    IF score >= 5000 THEN "safe"
    ELSE IF score >= 2500 THEN "moderate" ELSE "dangerous"

\* Reason with "ur_norm >= 0.2"
ReasonInclusive(time_factor, ur_norm, poi_density) ==
    (IF time_factor < Scale THEN <<"Late hours reduce safety">> ELSE <<>>)
    \o (IF ur_norm >= 2000 THEN <<"Multiple unsafe reports nearby">> ELSE <<>>)
    \o (IF poi_density > 5000 THEN <<"Crowded places increase safety">> ELSE <<>>)

\* reason = []; three independent appends
Reason(time_factor, ur_norm, poi_density) ==
    (IF time_factor < Scale THEN <<"Late hours reduce safety">> ELSE <<>>)
    \o (IF ur_norm > 2000 THEN <<"Multiple unsafe reports nearby">> ELSE <<>>)
    \o (IF poi_density > 5000 THEN <<"Crowded places increase safety">> ELSE <<>>)

\* The locals of route_safety at its return, and its response, for a payload,
\* a reading of the clock and the documents find() returned
Assess(payload, clk, reports) ==
    LET now == Now(payload, clk)
        hour == Hour(now)
        time_factor == TimeFactor(hour)
        mid_lat == Mid(payload.origin[1], payload.destination[1])
        mid_lng == Mid(payload.origin[2], payload.destination[2])
        acc == Loop([unsafe_reports |-> 0, safe_reports |-> 0],
                    reports, mid_lat, mid_lng)
        poi_density == PoiDensity(acc.safe_reports)
        sr_norm == SrNorm(acc.safe_reports)
        ur_norm == UrNorm(acc.unsafe_reports)
        score == Score(poi_density, sr_norm, ur_norm, time_factor)
    IN  [op |-> "route_safety",
         payload |-> payload,
         clock |-> clk,
         now |-> now,
         hour |-> hour,
         time_factor |-> time_factor,
         reports |-> reports,
         unsafe_reports |-> acc.unsafe_reports,
         safe_reports |-> acc.safe_reports,
         poi_density |-> poi_density,
         sr_norm |-> sr_norm,
         ur_norm |-> ur_norm,
         response |->
            [score |-> score,
             safety |-> Safety(score),
             reasons |-> Reason(time_factor, ur_norm, poi_density),
             path |-> << [lat |-> payload.origin[1], lng |-> payload.origin[2]],
                         [lat |-> mid_lat, lng |-> mid_lng],
                         [lat |-> payload.destination[1],
                          lng |-> payload.destination[2]] >>]]

\* route_safety with r.setdefault("severity", 1) written back to the store
route_safety_setdefault(payload) ==
    /\ call' = Assess(payload, clock, report)
    /\ report' = [i \in DOMAIN report |->
            [k \in DOMAIN report[i] \cup {"severity"} |->
                Get(report[i], k, 1)]]
    /\ UNCHANGED <<clock, user, session, thread>>

\* POST /api/route-safety
route_safety(payload) ==
    /\ call' = Assess(payload, clock, report)
    /\ UNCHANGED <<report, clock, user, session, thread>>

---------------------------------------------------------------------------
(* The document store *)

\* database.create_document(collection_name, data): the collection with the
\* document inserted under a fresh _id
create_document(coll, data) ==
    Append(coll, [k \in DOMAIN data \cup {"_id"} |->
                    IF k = "_id" THEN Len(coll) + 1 ELSE data[k]])

---------------------------------------------------------------------------
(* create_report *)

\* Report(**payload.model_dump()): severity: int = Field(1, ge=1, le=5)
ReportValid(payload) == payload.severity >= 1 /\ payload.severity <= 5

\* POST /api/report; a payload that fails validation raises and stores nothing
create_report(payload) ==
    /\ Len(report) < MaxReports
    /\ IF ReportValid(payload)
       THEN report' = create_document(report, payload)
       ELSE report' = report
    /\ UNCHANGED <<clock, call, user, session, thread>>

\* Time passes
Tick ==
    /\ \E t \in ClockValues : t > clock /\ clock' = t
    /\ UNCHANGED <<report, call, user, session, thread>>

---------------------------------------------------------------------------
(* signup: each worker thread runs the handler one statement at a time *)

\* exists = collection("user").find_one({"$or": [{"email": ...}, {"phone": ...}]})
find_one_email_or_phone(coll, payload) ==
    \E i \in 1..Len(coll) :
        coll[i].email = payload.email \/ coll[i].phone = payload.phone

\* line 63: the existence check
signup_find(t, payload) ==
    /\ thread[t].pc = "idle"
    /\ thread' = [thread EXCEPT ![t] =
            [pc |-> "checked", payload |-> payload,
             exists |-> find_one_email_or_phone(user, payload),
             status |-> 0]]
    /\ UNCHANGED <<report, clock, call, user, session>>

\* lines 64-65: raise HTTPException(status_code=400, ...)
signup_raise(t) ==
    /\ thread[t].pc = "checked"
    /\ thread[t].exists
    /\ thread' = [thread EXCEPT ![t].pc = "idle", ![t].status = 400]
    /\ UNCHANGED <<report, clock, call, user, session>>

\* lines 66-67: user_id = create_document("user", user)
signup_create_user(t) ==
    /\ thread[t].pc = "checked"
    /\ ~thread[t].exists
    /\ user' = create_document(user, thread[t].payload)
    /\ thread' = [thread EXCEPT ![t].pc = "user_created"]
    /\ UNCHANGED <<report, clock, call, session>>

\* lines 68-70: create_document("session", ...) and the response
signup_create_session(t) ==
    /\ thread[t].pc = "user_created"
    /\ session' = create_document(session,
            [user_id |-> Len(user), token |-> Len(session) + 1])
    /\ thread' = [thread EXCEPT ![t].pc = "idle", ![t].status = 200]
    /\ UNCHANGED <<report, clock, call, user>>

---------------------------------------------------------------------------
(* Specifications *)

Idle == [pc |-> "idle", payload |-> [email |-> "", phone |-> ""],
         exists |-> FALSE, status |-> 0]

\* The service with its report store: reports are submitted, routes are
\* assessed, time passes
Init ==
    /\ report \in {<<>>} \cup { <<d>> : d \in LegacyDocs }
    /\ clock \in ClockValues
    /\ call = NoCall
    /\ user = <<>>
    /\ session = <<>>
    /\ thread = [t \in Threads |-> Idle]

Next ==
    \/ \E payload \in RouteQueries : route_safety(payload)
    \/ \E payload \in ReportRequests : create_report(payload)
    \/ Tick

Spec == Init /\ [][Next]_vars

\* Signup requests handled by the worker threads of the server
SignupInit ==
    /\ report = <<>>
    /\ clock = 1700000000
    /\ call = NoCall
    /\ user = <<>>
    /\ session = <<>>
    /\ thread = [t \in Threads |-> Idle]

SignupNext ==
    \E t \in Threads :
        \/ \E payload \in SignupRequests : signup_find(t, payload)
        \/ signup_raise(t)
        \/ signup_create_user(t)
        \/ signup_create_session(t)

SignupSpec == SignupInit /\ [][SignupNext]_vars

\* The scorer on large stores: near reports of severity 5, then reports at
\* 0.05 degrees, then reports at 0.1 degrees from the midpoint (0, 0)
Store(near, mid, far) ==
    [i \in 1..(near + mid + far) |->
        IF i <= near THEN [_id |-> i, lat |-> 0, lng |-> 0, severity |-> 5]
        ELSE IF i <= near + mid
             THEN [_id |-> i, lat |-> 300, lng |-> 400, severity |-> 2]
             ELSE [_id |-> i, lat |-> 600, lng |-> 800, severity |-> 1]]

ScoreInit ==
    /\ \E near \in 0..MaxNear, mid \in 0..MaxMid, far \in 0..MaxFar :
            report = Store(near, mid, far)
    /\ clock = 1700000000
    /\ call = NoCall
    /\ user = <<>>
    /\ session = <<>>
    /\ thread = [t \in Threads |-> Idle]

ScoreQueries ==
    { q \in RouteQueries :
        /\ q.destination = <<0, 0>>
        /\ "timestamp" \in DOMAIN q
        /\ q.timestamp \in {21600, 72000} }

ScoreNext == \E payload \in ScoreQueries : route_safety(payload)

ScoreSpec == ScoreInit /\ [][ScoreNext]_vars

---------------------------------------------------------------------------
(* Properties *)

Called == call.op = "route_safety"

\* The hour of day and the late-night test, from a Unix-seconds value
HourOf(t) == (t \div 3600) % 24

IsLate(h) == h >= 20 \/ h <= 5

\* C1: whenever the request carries a timestamp (0 and negative values
\* included), the hour is floor(timestamp / 3600) mod 24 of that timestamp and
\* time_factor is 0.7 exactly when that hour is >= 20 or <= 5, else 1.0; when
\* it carries none, the hour is that of the wall clock.
C1_TimestampDecidesHour ==
    Called =>
        IF "timestamp" \in DOMAIN call.payload
        THEN /\ call.hour = HourOf(call.payload.timestamp)
             /\ call.time_factor =
                    (IF IsLate(HourOf(call.payload.timestamp)) THEN 7000 ELSE 10000)
        ELSE call.hour = HourOf(call.clock)

\* Twice the distance of report r to the midpoint of the request's origin and
\* destination is below twice t (all on squares, no halving)
Within(r, payload, t) ==
    LET lat == IF "lat" \in DOMAIN r THEN r.lat ELSE 0
        lng == IF "lng" \in DOMAIN r THEN r.lng ELSE 0
        dx2 == 2 * lat - (payload.origin[1] + payload.destination[1])
        dy2 == 2 * lng - (payload.origin[2] + payload.destination[2])
    IN  dx2 * dx2 + dy2 * dy2 < (2 * t) * (2 * t)

NearIdx(c) == { i \in DOMAIN c.reports : Within(c.reports[i], c.payload, 500) }

MidIdx(c) ==
    { i \in DOMAIN c.reports :
        /\ ~Within(c.reports[i], c.payload, 500)
        /\ Within(c.reports[i], c.payload, 1000) }

FarIdx(c) == { i \in DOMAIN c.reports : ~Within(c.reports[i], c.payload, 1000) }

RECURSIVE SeveritySum(_, _)
SeveritySum(reports, I) ==
    IF I = {}
    THEN 0
    ELSE LET i == CHOOSE x \in I : TRUE
         IN  (IF "severity" \in DOMAIN reports[i] THEN reports[i].severity ELSE 1)
             + SeveritySum(reports, I \ {i})

\* C2: after the pass, safe_reports is the number of reports at distance
\* >= 0.1 from the midpoint, and unsafe_reports is the sum of the severities of
\* the reports at distance < 0.05 plus the number of reports at distance in
\* [0.05, 0.1); a missing lat or lng counts as 0, a missing severity as 1.
C2_Accumulators ==
    Called =>
        /\ call.safe_reports = Cardinality(FarIdx(call))
        /\ call.unsafe_reports =
               SeveritySum(call.reports, NearIdx(call)) + Cardinality(MidIdx(call))

\* A pass over a near report that has no severity and no lat, a report at
\* exactly 0.05 and a report at exactly 0.1 from the midpoint
C2_Witness ==
    /\ Called
    /\ call.payload.destination = <<0, 0>>
    /\ Len(call.reports) = 3
    /\ \E i \in NearIdx(call) :
            {"lat", "severity"} \cap DOMAIN call.reports[i] = {}
    /\ \E i \in MidIdx(call) : call.reports[i].lat = 300 /\ call.reports[i].lng = 400
    /\ \E i \in FarIdx(call) : call.reports[i].lat = 600 /\ call.reports[i].lng = 800
    /\ call.unsafe_reports = 2
    /\ call.safe_reports = 1

\* C3: score = (0.6*poi_density + 0.3*sr_norm - 0.5*ur_norm) * time_factor with
\* poi_density = (safe_reports mod 20)/20, sr_norm = min(safe_reports/50, 1),
\* ur_norm = min(unsafe_reports/50, 1), each in [0, 1]; the score is not
\* clamped and lies between -0.5*time_factor and 0.9*time_factor.
C3_Score ==
    Called =>
        LET m == call.safe_reports % 20
            s == IF call.safe_reports < 50 THEN call.safe_reports ELSE 50
            u == IF call.unsafe_reports < 50 THEN call.unsafe_reports ELSE 50
            tf == call.time_factor
        IN  /\ call.poi_density * 20 = m * Scale
            /\ call.sr_norm * 50 = s * Scale
            /\ call.ur_norm * 50 = u * Scale
            /\ \A x \in {call.poi_density, call.sr_norm, call.ur_norm} :
                    0 <= x /\ x <= Scale
            /\ tf \in {7000, 10000}
            /\ call.response.score * Scale = (300 * m + 60 * s - 100 * u) * tf
            /\ -5000 * tf <= call.response.score * Scale
            /\ call.response.score * Scale <= 9000 * tf

\* 30 near reports of severity 5 at a daytime hour: score -0.5
C3_Witness ==
    /\ Called
    /\ Len(call.reports) = 30
    /\ call.unsafe_reports = 150
    /\ call.safe_reports = 0
    /\ call.time_factor = Scale
    /\ call.response.score = -5000

\* C4: the label is "safe" exactly when score >= 0.5, "moderate" exactly when
\* 0.25 <= score < 0.5, "dangerous" exactly when score < 0.25; 50 far reports
\* at a daytime hour score 0.6 and are "safe", an empty snapshot scores 0 and
\* is "dangerous".
C4_Label ==
    Called =>
        LET score == call.response.score
            safety == call.response.safety
        IN  /\ safety \in {"safe", "moderate", "dangerous"}
            /\ safety = "safe" <=> score >= 5000
            /\ safety = "moderate" <=> (2500 <= score /\ score < 5000)
            /\ safety = "dangerous" <=> score < 2500
            /\ (call.safe_reports = 50 /\ call.unsafe_reports = 0
                    /\ call.time_factor = Scale)
                => (score = 6000 /\ safety = "safe")
            /\ call.reports = <<>> => (score = 0 /\ safety = "dangerous")

\* 50 far reports and two near reports of severity 5 at a daytime hour: the
\* score is exactly 0.5 and the label "safe"
C4_Witness ==
    /\ Called
    /\ call.safe_reports = 50
    /\ call.unsafe_reports = 10
    /\ call.time_factor = Scale
    /\ call.response.score = 5000
    /\ call.response.safety = "safe"

\* C5: the reasons are, in this order and each at most once, "Late hours
\* reduce safety" exactly when time_factor < 1, "Multiple unsafe reports
\* nearby" exactly when unsafe_reports > 10, "Crowded places increase safety"
\* exactly when safe_reports mod 20 > 10, and nothing else.
C5_Reasons ==
    Called =>
        LET reasons == call.response.reasons
            late == call.time_factor < Scale
            unsafe == call.unsafe_reports > 10
            crowded == call.safe_reports % 20 > 10
            Has(x) == \E i \in DOMAIN reasons : reasons[i] = x
            Pos(x) == CHOOSE i \in DOMAIN reasons : reasons[i] = x
        IN  /\ Has("Late hours reduce safety") <=> late
            /\ Has("Multiple unsafe reports nearby") <=> unsafe
            /\ Has("Crowded places increase safety") <=> crowded
            /\ unsafe <=> call.ur_norm > 2000
            /\ crowded <=> call.poi_density > 5000
            /\ \A i \in DOMAIN reasons :
                    reasons[i] \in {"Late hours reduce safety",
                                    "Multiple unsafe reports nearby",
                                    "Crowded places increase safety"}
            /\ \A i, j \in DOMAIN reasons : reasons[i] = reasons[j] => i = j
            /\ (late /\ unsafe) =>
                    Pos("Late hours reduce safety")
                        < Pos("Multiple unsafe reports nearby")
            /\ (late /\ crowded) =>
                    Pos("Late hours reduce safety")
                        < Pos("Crowded places increase safety")
            /\ (unsafe /\ crowded) =>
                    Pos("Multiple unsafe reports nearby")
                        < Pos("Crowded places increase safety")
            /\ call.reports = <<>> =>
                    reasons = (IF late THEN <<"Late hours reduce safety">> ELSE <<>>)

\* A late call with more than 10 unsafe and safe_reports mod 20 > 10: all
\* three reasons
C5_Witness ==
    /\ Called
    /\ call.response.reasons =
            <<"Late hours reduce safety", "Multiple unsafe reports nearby",
              "Crowded places increase safety">>

\* C6: two route_safety calls with the same arguments, the timestamp among
\* them, and the same report snapshot return the same response, whatever the
\* wall clock reads at each call.
C6_SameArgumentsSameResponse ==
    [][(/\ Called
        /\ call'.op = "route_safety"
        /\ call'.payload = call.payload
        /\ "timestamp" \in DOMAIN call.payload
        /\ call'.reports = call.reports)
       => call'.response = call.response]_vars

\* The orderings of a sequence
Orderings(seq) ==
    { [i \in 1..Len(seq) |-> seq[f[i]]] : f \in Permutations(1..Len(seq)) }

\* The subsequence of seq on the index set I
RECURSIVE Pick(_, _, _)
Pick(seq, I, i) ==
    IF i > Len(seq) THEN <<>>
    ELSE (IF i \in I THEN <<seq[i]>> ELSE <<>>) \o Pick(seq, I, i + 1)

\* C7: every ordering of the snapshot's reports gives the same safe_reports
\* and unsafe_reports and the same response, and the totals of any two parts
\* of the snapshot accumulated apart add up to the totals of the whole.
C7_OrderIndependent ==
    Called =>
        /\ \A o \in Orderings(call.reports) :
            LET a == Assess(call.payload, call.clock, o)
            IN  /\ a.safe_reports = call.safe_reports
                /\ a.unsafe_reports = call.unsafe_reports
                /\ a.response = call.response
        /\ \A I \in SUBSET DOMAIN call.reports :
            LET a == Assess(call.payload, call.clock, Pick(call.reports, I, 1))
                b == Assess(call.payload, call.clock,
                            Pick(call.reports, DOMAIN call.reports \ I, 1))
            IN  /\ a.safe_reports + b.safe_reports = call.safe_reports
                /\ a.unsafe_reports + b.unsafe_reports = call.unsafe_reports

\* A snapshot of three reports that fall in three different classes, the near
\* one of severity 5
C7_Witness ==
    /\ Called
    /\ Len(call.reports) = 3
    /\ NearIdx(call) # {} /\ MidIdx(call) # {} /\ FarIdx(call) # {}
    /\ call.unsafe_reports = 6
    /\ call.safe_reports = 1

\* C8: a route_safety call leaves the stored reports as they are and assesses
\* exactly the reports stored when it reads them; the store only grows, so a
\* later call may see more reports than an earlier one.
C8_ReadOnly ==
    [][/\ call' # call => (report' = report /\ call'.reports = report)
       /\ Len(report') >= Len(report)
       /\ SubSeq(report', 1, Len(report)) = report]_vars

\* A call was made on a non-empty store and a report was stored after it
C8_Witness ==
    /\ Called
    /\ Len(call.reports) >= 1
    /\ Len(report) > Len(call.reports)
    /\ SubSeq(report, 1, Len(call.reports)) = call.reports

\* C9: after any sequence of signup calls, interleaved ones included, no two
\* stored users share an email and no two share a phone.
C9_NoDuplicateUsers ==
    \A i, j \in DOMAIN user :
        i # j => (user[i].email # user[j].email /\ user[i].phone # user[j].phone)

Rank(safety) ==
    CASE safety = "dangerous" -> 0
      [] safety = "moderate" -> 1
      [] safety = "safe" -> 2

\* The assessments of the latest call's route on its snapshot at the two
\* timestamps of ScoreQueries
Alternatives == { Assess(q, clock, call.reports) : q \in ScoreQueries }

\* C10: on one snapshot, an assessment with time_factor 0.7 never has a safer
\* label than one with time_factor 1.0, although its score is the higher one
\* whenever the daytime score is negative.
C10_LateNeverSafer ==
    Called =>
        \A late, day \in Alternatives :
            (late.time_factor = 7000 /\ day.time_factor = 10000) =>
                /\ Rank(late.response.safety) <= Rank(day.response.safety)
                /\ day.response.score < 0 =>
                        late.response.score > day.response.score

\* A late call whose score is negative and above the daytime score of the
\* same snapshot, both labelled "dangerous"
C10_Witness ==
    /\ Called
    /\ call.time_factor = 7000
    /\ call.response.score < 0
    /\ \E day \in Alternatives :
            /\ day.time_factor = 10000
            /\ day.response.score < call.response.score
            /\ day.response.safety = call.response.safety

===========================================================================
